---- MODULE Spec2Model ----
(***************************************************************************)
(* Model of the trend-following engine of anuj62/tqqq-strategy:            *)
(*   - backtest.py       run_backtest / calculate_metrics (single MA)      *)
(*   - soxl_backtest.py  run_backtest / calculate_metrics (dual MA + ROC)  *)
(*   - strategy.py       get_signal / get_position_size                    *)
(*   - soxl_strategy.py  get_signal / calculate_position_size              *)
(*   - trade.py          run_strategy / execute_trade                      *)
(*                                                                         *)
(* Numbers.  The code computes on float64 columns.  The model computes on  *)
(* exact rationals [n, d] kept in lowest terms with d > 0; the value       *)
(* [n |-> 0, d |-> 0] is NaN.  Prices are positive integers.  The          *)
(* irrational metrics (annualised return, volatility, Sharpe) are not      *)
(* part of the model.                                                      *)
(*                                                                         *)
(* Frames.  A pandas frame is a sequence of row records; the field "date"  *)
(* is the row label, which survives dropna().  The input frames of one     *)
(* backtest share their trading calendar and carry no missing close.       *)
(***************************************************************************)
EXTENDS Integers, Sequences, FiniteSets, TLC

VARIABLES
    \* ---- backtests and get_signal ----
    policy,        \* "single" (backtest.py), "dual" (soxl_backtest.py), "none"
    index_data,    \* closes of the index frame
    etf_data,      \* closes of the long ETF frame
    short_data,    \* [given, close]: short_etf_data (None when not given)
    use_shorts,    \* run_backtest(use_shorts=...)
    ma_period,     \* run_backtest(ma_period=...), get_signal(ma_period=...)
    bt_pc,         \* "ready", "done", "raised", "idle"
    signals,       \* the frame once the positions are generated, before the lag
    data,          \* the frame handed to calculate_metrics (results['data'])
    results,       \* the metrics dict
    sig_pc,        \* "ready", "done", "idle"
    sig,           \* the dict returned by get_signal
    volatility,    \* float(latest['Volatility']) in soxl_strategy.get_signal
    sig_locals,    \* the locals of soxl_strategy.get_signal when it returns
    index_columns, \* index_data.columns: "flat" or "multi" (a pd.MultiIndex)
    etf_columns,   \* etf_data.columns: "flat" or "multi"
    \* ---- run_strategy ----
    tpc,           \* position in run_strategy
    run,           \* number of the current run of run_strategy
    USE_SHORTS,    \* config.USE_SHORTS
    dry_run,       \* run_strategy(dry_run=...)
    signal,        \* the dict returned by get_signal, as run_strategy reads it
    portfolio_value, \* account['portfolio_value']
    price,         \* last close the price provider returns for the target; 0: empty series
    positions,     \* the venue's holdings: symbol -> qty
    current_tqqq,  \* local of run_strategy
    current_sqqq,  \* local of run_strategy
    target_ticker, \* local of run_strategy
    target_shares, \* local of run_strategy
    orders,        \* calls of execute_trade in this run, in order
    submitted,     \* orders handed to client.submit_order in this run, in order
    venue,         \* calls to the venue in this run, in order
    prev_orders,   \* orders of the previous run
    exc,           \* the exception that left run_strategy, "None" if none
    sized          \* the dict returned by strategy.get_position_size

btvars == <<policy, index_data, etf_data, short_data, use_shorts, ma_period,
            bt_pc, signals, data, results, sig_pc, sig, volatility, sig_locals,
            index_columns, etf_columns>>
trvars == <<tpc, run, USE_SHORTS, dry_run, signal, portfolio_value, price,
            positions, current_tqqq, current_sqqq, target_ticker,
            target_shares, orders, submitted, venue, prev_orders, exc, sized>>
vars == <<btvars, trvars>>

(***************************************************************************)
(* Bounds of the model.                                                    *)
(***************************************************************************)
MaxLen == 4            \* longest input frame of backtest.py and strategy.py
SoxMaxLen == 4         \* longest input frame of soxl_backtest.py
MaxValue == 3          \* largest portfolio value of run_strategy
MaxPrice == 2          \* largest price of the target instrument
MaxQty == 3            \* largest holding of an instrument before a run
MaxRuns == 2           \* runs of run_strategy in a row

\* the closes the inputs are drawn from
IndexCloses == 1..4
EtfCloses == 1..2
SoxIndexCloses == 1..2
SoxEtfCloses == 1..2
\* the closes soxl_strategy.get_signal and run_comparison are given
SoxSignalCloses == 1..3
\* the ma_period arguments tried (config.MA_PERIOD, the default, is 250)
MaPeriods == {2, 3}
\* the shapes of a frame's column labels: plain, or a pd.MultiIndex
ColumnLabels == {"flat", "multi"}

(***************************************************************************)
(* float arithmetic, as exact rationals                                    *)
(***************************************************************************)
RECURSIVE GCD(_, _)
GCD(a, b) == IF b = 0 THEN a ELSE GCD(b, a % b)

Abs(x) == IF x < 0 THEN -x ELSE x

NaN == [n |-> 0, d |-> 0]

IsNaN(x) == x.d = 0

\* n/d in lowest terms with a positive denominator, g = gcd(|n|, |d|), d # 0
Reduce(n, d, g) == IF d < 0 THEN [n |-> (-n) \div g, d |-> (-d) \div g]
                            ELSE [n |-> n \div g, d |-> d \div g]

R(n, d) == Reduce(n, d, GCD(Abs(n), Abs(d)))

Zero == [n |-> 0, d |-> 1]
One == [n |-> 1, d |-> 1]

RAdd(a, b) == IF IsNaN(a) \/ IsNaN(b) THEN NaN ELSE R(a.n * b.d + b.n * a.d, a.d * b.d)
RSub(a, b) == IF IsNaN(a) \/ IsNaN(b) THEN NaN ELSE R(a.n * b.d - b.n * a.d, a.d * b.d)
RMul(a, b) == IF IsNaN(a) \/ IsNaN(b) THEN NaN ELSE R(a.n * b.n, a.d * b.d)
\* x / 0 is nan for x = 0 and +-inf otherwise; no column of the model
\* divides by 0, the closes being positive
RDiv(a, b) == IF IsNaN(a) \/ IsNaN(b) \/ b.n = 0 THEN NaN ELSE R(a.n * b.d, a.d * b.n)

\* comparisons: every comparison with NaN is False, except !=
RLt(a, b) == ~IsNaN(a) /\ ~IsNaN(b) /\ a.n * b.d < b.n * a.d
RGt(a, b) == RLt(b, a)
RLe(a, b) == ~IsNaN(a) /\ ~IsNaN(b) /\ a.n * b.d <= b.n * a.d
RNe(a, b) == IsNaN(a) \/ IsNaN(b) \/ a # b

\* to the nearest integer, ties to the even one; q = floor(x)
RoundFrom(x, q) ==
    IF 2 * (x.n - q * x.d) < x.d THEN q
    ELSE IF 2 * (x.n - q * x.d) > x.d THEN q + 1
    ELSE IF q % 2 = 0 THEN q ELSE q + 1

\* round(x) of Python
RoundHalfEven(x) == RoundFrom(x, x.n \div x.d)

\* round(x * 100, 2), in hundredths (of a percent)
RoundPct(x) == RoundHalfEven(RMul(x, [n |-> 10000, d |-> 1]))

\* round(x, 2), in hundredths
Round2(x) == RoundHalfEven(RMul(x, [n |-> 100, d |-> 1]))

\* no dict yet
NoResult == [status |-> "none"]

(***************************************************************************)
(* pandas column operations                                                *)
(***************************************************************************)
\* a column or a frame is an array of values, not a rule that computes them
Arr(f) == SubSeq(f, 1, Len(f))

Col(rows, f) == Arr([i \in 1..Len(rows) |-> rows[i][f]])

\* an integer column as a float column
AsFloat(col) == Arr([i \in 1..Len(col) |-> [n |-> col[i], d |-> 1]])

\* DataFrame.dropna(): keep the rows with no NaN in the float columns
DropNa(rows, cols) == SelectSeq(rows, LAMBDA r : \A c \in cols : ~IsNaN(r[c]))

RECURSIVE SumR(_, _, _)
SumR(col, a, b) == IF a > b THEN Zero ELSE RAdd(col[a], SumR(col, a + 1, b))

\* Series.rolling(window=w).mean()
RollingMean(col, w) ==
    Arr([i \in 1..Len(col) |->
            IF i < w THEN NaN ELSE RDiv(SumR(col, i - w + 1, i), [n |-> w, d |-> 1])])

\* Series.pct_change(periods=p)
PctChange(col, p) ==
    Arr([i \in 1..Len(col) |->
            IF i <= p THEN NaN ELSE RDiv(RSub(col[i], col[i - p]), col[i - p])])

\* mutant of Shift: the lag is forgotten
ShiftNone(col) == Arr(col)

\* Series.shift(1)
Shift(col) == Arr([i \in 1..Len(col) |-> IF i = 1 THEN NaN ELSE col[i - 1]])

RECURSIVE CumProd(_)
\* Series.cumprod()
CumProd(col) ==
    IF Len(col) = 0 THEN <<>>
    ELSE IF Len(col) = 1 THEN <<col[1]>>
    ELSE Append(CumProd(SubSeq(col, 1, Len(col) - 1)),
                RMul(CumProd(SubSeq(col, 1, Len(col) - 1))[Len(col) - 1], col[Len(col)]))

\* 1 + Series
Plus1(col) == Arr([i \in 1..Len(col) |-> RAdd(One, col[i])])

\* (1 + Series).cumprod()
CumProd1p(col) == CumProd(Plus1(col))

RMax(a, b) == IF RLt(a, b) THEN b ELSE a
RMin(a, b) == IF RLt(b, a) THEN b ELSE a

RECURSIVE MaxUpTo(_, _)
MaxUpTo(col, i) == IF i = 1 THEN col[1] ELSE RMax(MaxUpTo(col, i - 1), col[i])

\* Series.expanding().max()
ExpandingMax(col) == Arr([i \in 1..Len(col) |-> MaxUpTo(col, i)])

RECURSIVE MinUpTo(_, _)
MinUpTo(col, i) == IF i = 1 THEN col[1] ELSE RMin(MinUpTo(col, i - 1), col[i])

\* Series.min() of a non-empty series
SeriesMin(col) == MinUpTo(col, Len(col))

\* mutant of Drawdowns: the peak is not subtracted
DrawdownsRatio(cumulative, rolling_max) ==
    Arr([i \in 1..Len(cumulative) |-> RDiv(cumulative[i], rolling_max[i])])

\* (cumulative - rolling_max) / rolling_max
Drawdowns(cumulative, rolling_max) ==
    Arr([i \in 1..Len(cumulative) |->
            RDiv(RSub(cumulative[i], rolling_max[i]), rolling_max[i])])

\* the drawdowns of a cumulative curve, then .min()
MaxDrawdown(cumulative) == SeriesMin(Drawdowns(cumulative, ExpandingMax(cumulative)))

\* (a != b).sum()
CountNe(a, b) == Cardinality({i \in 1..Len(a) : RNe(a[i], b[i])})

\* (a != a.shift(1)).sum() for an integer column a
ChangeCount(col) == CountNe(AsFloat(col), Shift(AsFloat(col)))

\* winning_days / total_days if total_days > 0 else 0
WinRateOf(winning_days, total_days) ==
    IF total_days > 0 THEN R(winning_days, total_days) ELSE Zero

WinRate(returns) ==
    WinRateOf(Cardinality({i \in 1..Len(returns) : RGt(returns[i], Zero)}),
              Cardinality({i \in 1..Len(returns) : RNe(returns[i], Zero)}))

\* (final - initial_capital) / initial_capital
TotalReturn(final, initial_capital) ==
    RDiv(RSub(final, [n |-> initial_capital, d |-> 1]), [n |-> initial_capital, d |-> 1])

(***************************************************************************)
(* backtest.py                                                             *)
(***************************************************************************)
InitialCapital == 100000

\* lines 47-50: a MultiIndex is replaced by its first level, in the frame
\* the caller passed
FlattenColumns(columns) == IF columns = "multi" THEN "flat" ELSE columns

\* lines 52-55: the aligned frame
BtCombined(idx, etf) ==
    DropNa([i \in 1..Len(idx) |->
               [date |-> i, index_close |-> [n |-> idx[i], d |-> 1],
                etf_close |-> [n |-> etf[i], d |-> 1]]],
           {"index_close", "etf_close"})

\* line 59
BtAddSma(combined, sma) ==
    DropNa([i \in 1..Len(combined) |-> combined[i] @@ [sma |-> sma[i]]],
           {"index_close", "etf_close", "sma"})

\* lines 57-59: the moving average, rows without one dropped
BtWithSma(combined, w) == BtAddSma(combined, RollingMean(Col(combined, "index_close"), w))

\* mutant of BtAboveMa: the comparison is reversed
BtBelowMa(row) == RLt(row.index_close, row.sma)

\* line 62
BtAboveMa(row) == RGt(row.index_close, row.sma)

\* line 63
BtSignal(above_ma) == IF above_ma THEN 1 ELSE 0

\* lines 61-63
BtWithSignal(rows) ==
    Arr([i \in 1..Len(rows) |->
            rows[i] @@ [above_ma |-> BtAboveMa(rows[i]),
                        signal |-> BtSignal(BtAboveMa(rows[i]))]])

\* line 67: the position applied to a row's return
BtAppliedSignal(signal_col) == Shift(AsFloat(signal_col))

\* lines 66-71
BtAddReturns(rows, etf_return, applied) ==
    DropNa([i \in 1..Len(rows) |->
               rows[i] @@ [etf_return |-> etf_return[i],
                           strategy_return |-> RMul(applied[i], etf_return[i]),
                           buy_hold_return |-> etf_return[i]]],
           {"index_close", "etf_close", "sma", "etf_return",
            "strategy_return", "buy_hold_return"})

\* lines 65-71
BtWithReturns(rows) ==
    BtAddReturns(rows, PctChange(Col(rows, "etf_close"), 1),
                 BtAppliedSignal(Col(rows, "signal")))

\* lines 74-79
BtAddValues(rows, sc, bc, initial_capital) ==
    Arr([i \in 1..Len(rows) |->
            rows[i] @@ [strategy_cumulative |-> sc[i],
                        buy_hold_cumulative |-> bc[i],
                        strategy_value |-> RMul([n |-> initial_capital, d |-> 1], sc[i]),
                        buy_hold_value |-> RMul([n |-> initial_capital, d |-> 1], bc[i])]])

\* lines 73-79
BtWithValues(rows, initial_capital) ==
    BtAddValues(rows, CumProd1p(Col(rows, "strategy_return")),
                CumProd1p(Col(rows, "buy_hold_return")), initial_capital)

\* lines 45-63: the frame with its signal column
BtSignals(idx, etf, w) == BtWithSignal(BtWithSma(BtCombined(idx, etf), w))

\* lines 65-79: the frame handed to calculate_metrics
BtFrame(with_signal, initial_capital) ==
    BtWithValues(BtWithReturns(with_signal), initial_capital)

\* line 120
BtTrades(rows) == ChangeCount(Col(rows, "signal"))

\* lines 88-153; .iloc[-1] of an empty frame raises IndexError
BtCalculateMetrics(rows, initial_capital) ==
    IF Len(rows) = 0 THEN [status |-> "raised", exc |-> "IndexError"]
    ELSE [status |-> "ok",
          start_date |-> rows[1].date,
          end_date |-> rows[Len(rows)].date,
          periods |-> Len(rows),
          initial_capital |-> initial_capital,
          final_value |-> Round2(rows[Len(rows)].strategy_value),
          total_return |->
              RoundPct(TotalReturn(rows[Len(rows)].strategy_value, initial_capital)),
          max_drawdown |-> RoundPct(MaxDrawdown(Col(rows, "strategy_cumulative"))),
          win_rate |-> RoundPct(WinRate(Col(rows, "strategy_return"))),
          total_trades |-> BtTrades(rows),
          bh_final_value |-> Round2(rows[Len(rows)].buy_hold_value),
          bh_total_return |->
              RoundPct(TotalReturn(rows[Len(rows)].buy_hold_value, initial_capital)),
          bh_max_drawdown |-> RoundPct(MaxDrawdown(Col(rows, "buy_hold_cumulative")))]

(***************************************************************************)
(* soxl_backtest.py                                                        *)
(***************************************************************************)
\* the windows of the source (200, 50, 20) scaled down, their order kept
MA_LONG == 3
MA_SHORT == 2
ROC_PERIOD == 1
ROC_THRESHOLD == [n |-> 1, d |-> 50]

\* lines 54-68: the aligned frame; short_close only if given and use_shorts
SxCombined(idx, long, short, shorts) ==
    IF short.given /\ shorts
    THEN DropNa([i \in 1..Len(idx) |->
                    [date |-> i, index_close |-> [n |-> idx[i], d |-> 1],
                     long_close |-> [n |-> long[i], d |-> 1],
                     short_close |-> [n |-> short.close[i], d |-> 1]]],
                {"index_close", "long_close", "short_close"})
    ELSE DropNa([i \in 1..Len(idx) |->
                    [date |-> i, index_close |-> [n |-> idx[i], d |-> 1],
                     long_close |-> [n |-> long[i], d |-> 1]]],
                {"index_close", "long_close"})

\* line 75
SxAddIndicators(df, sma_200, sma_50, roc) ==
    SelectSeq([i \in 1..Len(df) |->
                  df[i] @@ [sma_200 |-> sma_200[i], sma_50 |-> sma_50[i], roc |-> roc[i]]],
              LAMBDA r : ~IsNaN(r.sma_200) /\ ~IsNaN(r.sma_50) /\ ~IsNaN(r.roc))

\* lines 70-75
SxWithIndicators(df) ==
    SxAddIndicators(df, RollingMean(Col(df, "index_close"), MA_LONG),
                    RollingMean(Col(df, "index_close"), MA_SHORT),
                    PctChange(Col(df, "index_close"), ROC_PERIOD))

\* lines 84-89: np.select, the first true condition wins
SxSelect(above_200, above_50, strong_up, strong_down, shorts) ==
    IF above_200 /\ above_50 /\ strong_up THEN 1
    ELSE IF ~above_200 /\ ~above_50 /\ strong_down
         THEN (IF shorts THEN -1 ELSE 0)
         ELSE 0

\* lines 78-89
SxPosition(row, shorts) ==
    SxSelect(RGt(row.index_close, row.sma_200), RGt(row.index_close, row.sma_50),
             RGt(row.roc, ROC_THRESHOLD), RLt(row.roc, RSub(Zero, ROC_THRESHOLD)), shorts)

\* lines 77-89
SxWithPosition(df, shorts) ==
    Arr([i \in 1..Len(df) |-> df[i] @@ [position |-> SxPosition(df[i], shorts)]])

\* lines 99-107: position.shift(1) selects the return; NaN == 1 is False
SxStrategyReturn(prev_position, long_return, short_return) ==
    IF ~IsNaN(prev_position) /\ prev_position = [n |-> 1, d |-> 1] THEN long_return
    ELSE IF ~IsNaN(prev_position) /\ prev_position = [n |-> -1, d |-> 1] THEN short_return
    ELSE Zero

\* lines 93-96
SxShortReturn(df, shorts) ==
    IF shorts /\ Len(df) > 0 /\ "short_close" \in DOMAIN df[1]
    THEN PctChange(Col(df, "short_close"), 1)
    ELSE Arr([i \in 1..Len(df) |-> Zero])

\* lines 99-112
SxAddReturns(df, long_return, short_return, prev) ==
    SelectSeq([i \in 1..Len(df) |->
                  df[i] @@ [long_return |-> long_return[i],
                            short_return |-> short_return[i],
                            strategy_return |->
                                SxStrategyReturn(prev[i], long_return[i], short_return[i]),
                            buy_hold_return |-> long_return[i]]],
              LAMBDA r : ~IsNaN(r.long_return) /\ ~IsNaN(r.short_return)
                         /\ ~IsNaN(r.strategy_return) /\ ~IsNaN(r.buy_hold_return))

\* lines 91-112
SxWithReturns(df, shorts) ==
    SxAddReturns(df, PctChange(Col(df, "long_close"), 1), SxShortReturn(df, shorts),
                 Shift(AsFloat(Col(df, "position"))))

\* lines 115-120
SxAddValues(rows, sc, bc, initial_capital) ==
    Arr([i \in 1..Len(rows) |->
            rows[i] @@ [strategy_cumulative |-> sc[i],
                        buy_hold_cumulative |-> bc[i],
                        strategy_value |-> RMul([n |-> initial_capital, d |-> 1], sc[i]),
                        buy_hold_value |-> RMul([n |-> initial_capital, d |-> 1], bc[i])]])

\* lines 114-120
SxWithValues(rows, initial_capital) ==
    SxAddValues(rows, CumProd1p(Col(rows, "strategy_return")),
                CumProd1p(Col(rows, "buy_hold_return")), initial_capital)

\* lines 54-89: the frame with its position column
SxSignals(idx, long, short, shorts) ==
    SxWithPosition(SxWithIndicators(SxCombined(idx, long, short, shorts)), shorts)

\* lines 91-120: the frame handed to calculate_metrics
SxFrame(with_position, shorts, initial_capital) ==
    SxWithValues(SxWithReturns(with_position, shorts), initial_capital)

\* line 154
SxTrades(rows) == ChangeCount(Col(rows, "position"))

\* round((data['position'] == v).mean() * 100, 1), in tenths of a percent
SxTimeIn(rows, v) ==
    RoundHalfEven(RMul(R(Cardinality({i \in 1..Len(rows) : rows[i].position = v}), Len(rows)),
                       [n |-> 1000, d |-> 1]))

\* lines 129-199; .iloc[-1] of an empty frame raises IndexError
SxCalculateMetrics(rows, initial_capital, shorts) ==
    IF Len(rows) = 0 THEN [status |-> "raised", exc |-> "IndexError"]
    ELSE [status |-> "ok",
          start_date |-> rows[1].date,
          end_date |-> rows[Len(rows)].date,
          periods |-> Len(rows),
          initial_capital |-> initial_capital,
          use_shorts |-> shorts,
          final_value |-> Round2(rows[Len(rows)].strategy_value),
          total_return |->
              RoundPct(TotalReturn(rows[Len(rows)].strategy_value, initial_capital)),
          max_drawdown |-> RoundPct(MaxDrawdown(Col(rows, "strategy_cumulative"))),
          win_rate |-> RoundPct(WinRate(Col(rows, "strategy_return"))),
          total_trades |-> SxTrades(rows),
          time_long |-> SxTimeIn(rows, 1),
          time_short |-> SxTimeIn(rows, -1),
          time_cash |-> SxTimeIn(rows, 0),
          bh_final_value |-> Round2(rows[Len(rows)].buy_hold_value),
          bh_total_return |->
              RoundPct(TotalReturn(rows[Len(rows)].buy_hold_value, initial_capital)),
          bh_max_drawdown |-> RoundPct(MaxDrawdown(Col(rows, "buy_hold_cumulative")))]

(***************************************************************************)
(* strategy.py                                                             *)
(***************************************************************************)
\* mutant of AboveMa: a price equal to the average counts as above
AtOrAboveMa(current_price, current_sma) == RLe(current_sma, current_price)

\* line 48
AboveMa(current_price, current_sma) == RGt(current_price, current_sma)

\* lines 49-74
SignalDict(current_price, current_sma, prev_price, prev_sma, w, date) ==
    [status |-> "ok",
     date |-> date,
     price |-> Round2(current_price),
     sma |-> Round2(current_sma),
     ma_period |-> w,
     above_ma |-> AboveMa(current_price, current_sma),
     signal |-> IF AboveMa(current_price, current_sma) THEN "LONG" ELSE "CASH",
     position |-> IF AboveMa(current_price, current_sma) THEN "TQQQ" ELSE "CASH",
     allocation |-> IF AboveMa(current_price, current_sma) THEN One ELSE Zero,
     crossed_up |-> RGt(current_price, current_sma) /\ RLe(prev_price, prev_sma),
     crossed_down |-> RLt(current_price, current_sma) /\ RLe(prev_sma, prev_price),
     distance_from_ma |-> RoundPct(RDiv(RSub(current_price, current_sma), current_sma))]

\* lines 39-45: the latest and the previous row
SignalRows(close, sma, w) ==
    SignalDict(close[Len(close)], sma[Len(close)],
               close[Len(close) - 1], sma[Len(close) - 1], w, Len(close))

\* lines 26-74; closes is data['Close']; .iloc[-2] of a one-row frame raises
GetSignal(closes, w) ==
    IF Len(closes) < w THEN [status |-> "error", error |-> "need_more_data"]
    ELSE IF Len(closes) < 2 THEN [status |-> "raised", exc |-> "IndexError"]
    ELSE SignalRows(AsFloat(closes), RollingMean(AsFloat(closes), w), w)

\* lines 77-118; ticker_price is the last close of the position's ticker,
\* 0 when the price frame is empty
GetPositionSize(sig_, value, ticker_price) ==
    IF sig_.status = "error" THEN sig_
    ELSE IF sig_.position = "CASH"
    THEN sig_ @@ [portfolio_value |-> value, position_value |-> Zero,
                  shares_to_hold |-> 0, action |-> "HOLD CASH"]
    ELSE IF ticker_price = 0
    THEN [status |-> "error", error |-> "could_not_fetch"]
    ELSE sig_ @@ [portfolio_value |-> value,
                  position_value |-> RMul([n |-> value, d |-> 1], sig_.allocation),
                  ticker_price |-> ticker_price,
                  shares_to_hold |->
                      (value * sig_.allocation.n) \div (sig_.allocation.d * ticker_price),
                  action |-> "HOLD"]

(***************************************************************************)
(* soxl_strategy.py                                                        *)
(*                                                                         *)
(* MA_LONG, MA_SHORT, ROC_PERIOD and ROC_THRESHOLD have the values of      *)
(* soxl_backtest.py.  The annualised volatility of the latest row is a     *)
(* standard deviation times sqrt(252); the model takes it as an input of   *)
(* get_signal, any of the values of Volatilities.                          *)
(***************************************************************************)
Volatilities == {R(1, 5), R(7, 20), R(2, 5), R(1, 2), R(3, 5)}

RAbs(x) == [n |-> Abs(x.n), d |-> x.d]

\* lines 36-53: one row per input row, none dropped
CalculateIndicators(close, sma_200, sma_50, roc) ==
    Arr([i \in 1..Len(close) |->
            [Close |-> close[i], SMA_200 |-> sma_200[i], SMA_50 |-> sma_50[i],
             ROC |-> roc[i],
             Trend_Strength |-> RDiv(RSub(close[i], sma_200[i]), sma_200[i])]])

\* line 144
TrendMult(trend_strength) ==
    RMin(One, RAdd(R(1, 2), RMul(RAbs(trend_strength), [n |-> 2, d |-> 1])))

\* mutant of VolMult: the middle band is forgotten
VolMultTwoBands(vol) == IF RGt(vol, R(1, 2)) THEN R(1, 2) ELSE One

\* lines 147-152
VolMult(vol) ==
    IF RGt(vol, R(1, 2)) THEN R(1, 2)
    ELSE IF RGt(vol, R(7, 20)) THEN R(3, 4)
    ELSE One

\* lines 133-157
CalculatePositionSize(trend_strength, vol, bullish) ==
    RMin(One, RMul(RMul(One, TrendMult(trend_strength)), VolMult(vol)))

\* lines 160-177
GetMarketRegime(above_200, above_50, roc) ==
    IF above_200 /\ above_50
    THEN (IF RGt(roc, R(1, 20)) THEN "STRONG_UPTREND"
          ELSE IF RGt(roc, Zero) THEN "UPTREND"
          ELSE "WEAKENING_UPTREND")
    ELSE IF ~above_200 /\ ~above_50
    THEN (IF RLt(roc, R(-1, 20)) THEN "STRONG_DOWNTREND"
          ELSE IF RLt(roc, Zero) THEN "DOWNTREND"
          ELSE "WEAKENING_DOWNTREND")
    ELSE "TRANSITION"

\* lines 95-106: the signal
SxSignalOf(above_200, above_50, below_200, below_50, strong_up, strong_down) ==
    IF above_200 /\ above_50 /\ strong_up THEN "LONG"
    ELSE IF below_200 /\ below_50 /\ strong_down THEN "SHORT"
    ELSE "CASH"

\* lines 95-106: the allocation, before it is rounded
SxAllocation(signal_, trend_strength, vol) ==
    IF signal_ = "LONG" THEN CalculatePositionSize(trend_strength, vol, TRUE)
    ELSE IF signal_ = "SHORT" THEN CalculatePositionSize(RAbs(trend_strength), vol, FALSE)
    ELSE Zero

\* lines 113-130: the dict, and the locals it is built from
SxSignalDict(latest, vol, above_200, above_50, signal_, allocation, prev_above_200, date) ==
    [dict |->
        [status |-> "ok",
         date |-> date,
         price |-> Round2(latest.Close),
         sma_200 |-> Round2(latest.SMA_200),
         sma_50 |-> Round2(latest.SMA_50),
         roc |-> RoundPct(latest.ROC),
         volatility |-> RoundPct(vol),
         trend_strength |-> RoundPct(latest.Trend_Strength),
         above_200_ma |-> above_200,
         above_50_ma |-> above_50,
         signal |-> signal_,
         position |-> IF signal_ = "LONG" THEN "SOXL"
                      ELSE IF signal_ = "SHORT" THEN "SOXS" ELSE "CASH",
         allocation |-> Round2(allocation),
         crossed_up_200 |-> above_200 /\ ~prev_above_200,
         crossed_down_200 |-> ~above_200 /\ prev_above_200,
         regime |-> GetMarketRegime(above_200, above_50, latest.ROC)],
     locals |->
        [status |-> "ok",
         price |-> latest.Close, sma_200 |-> latest.SMA_200, sma_50 |-> latest.SMA_50,
         roc |-> latest.ROC, volatility |-> vol,
         trend_strength |-> latest.Trend_Strength,
         allocation |-> allocation, prev_above_200 |-> prev_above_200]]

\* lines 84-106
SxClassify(latest, vol, above_200, above_50, signal_, prev_above_200, date) ==
    SxSignalDict(latest, vol, above_200, above_50, signal_,
                 SxAllocation(signal_, latest.Trend_Strength, vol), prev_above_200, date)

\* lines 74-111: the latest and the previous row
SxSignalRows(latest, prev, vol, date) ==
    SxClassify(latest, vol,
               RGt(latest.Close, latest.SMA_200), RGt(latest.Close, latest.SMA_50),
               SxSignalOf(RGt(latest.Close, latest.SMA_200), RGt(latest.Close, latest.SMA_50),
                          RLt(latest.Close, latest.SMA_200), RLt(latest.Close, latest.SMA_50),
                          RGt(latest.ROC, ROC_THRESHOLD),
                          RLt(latest.ROC, RSub(Zero, ROC_THRESHOLD))),
               RGt(prev.Close, prev.SMA_200), date)

\* lines 69-75
SxSignalFrom(df, vol) ==
    IF Len(df) < MA_LONG
    THEN [dict |-> [status |-> "error", error |-> "need_more_data"], locals |-> NoResult]
    ELSE SxSignalRows(df[Len(df)], df[Len(df) - 1], vol, Len(df))

\* lines 56-130; closes is data['Close'], vol the latest row's Volatility
SxGetSignal(closes, vol) ==
    SxSignalFrom(CalculateIndicators(AsFloat(closes),
                                     RollingMean(AsFloat(closes), MA_LONG),
                                     RollingMean(AsFloat(closes), MA_SHORT),
                                     PctChange(AsFloat(closes), ROC_PERIOD)), vol)

(***************************************************************************)
(* The backtests and get_signal as operations on drawn inputs              *)
(***************************************************************************)
\* a short ETF that closes low when the long one closes high
Mirror(closes) == Arr([i \in 1..Len(closes) |-> IF closes[i] = 1 THEN 2 ELSE 1])

NoShort == [given |-> FALSE, close |-> <<>>]

TradeIdle ==
    /\ tpc = "idle" /\ run = 0 /\ USE_SHORTS = FALSE /\ dry_run = FALSE
    /\ signal = NoResult /\ portfolio_value = 0 /\ price = 0
    /\ positions = [s \in {"TQQQ", "SQQQ"} |-> 0]
    /\ current_tqqq = 0 /\ current_sqqq = 0 /\ target_ticker = "None"
    /\ target_shares = 0 /\ orders = <<>> /\ submitted = <<>> /\ prev_orders = <<>>
    /\ venue = <<>>
    /\ exc = "None" /\ sized = NoResult

\* python backtest.py: run_backtest(index_data, etf_data, ma_period)
InitBacktest ==
    /\ policy = "single" /\ bt_pc = "ready" /\ sig_pc = "idle"
    /\ \E n \in 0..MaxLen :
          /\ index_data \in [1..n -> IndexCloses]
          /\ etf_data \in [1..n -> EtfCloses]
    /\ ma_period \in MaPeriods
    /\ short_data = NoShort /\ use_shorts = FALSE
    /\ index_columns = "flat" /\ etf_columns = "flat"
    /\ volatility = NaN

\* run_backtest on frames as the price provider hands them over, their
\* column labels plain or a pd.MultiIndex
InitBacktestLabels ==
    /\ policy = "single" /\ bt_pc = "ready" /\ sig_pc = "idle"
    /\ \E n \in 0..MaxLen :
          /\ index_data \in [1..n -> EtfCloses]
          /\ etf_data \in [1..n -> EtfCloses]
    /\ ma_period \in MaPeriods
    /\ short_data = NoShort /\ use_shorts = FALSE
    /\ index_columns \in ColumnLabels /\ etf_columns = index_columns
    /\ volatility = NaN

\* python strategy.py: get_signal(data, ma_period)
InitSignal ==
    /\ policy = "single" /\ bt_pc = "idle" /\ sig_pc = "ready"
    /\ \E n \in 0..MaxLen : index_data \in [1..n -> IndexCloses]
    /\ etf_data = <<>>
    /\ ma_period \in MaPeriods
    /\ short_data = NoShort /\ use_shorts = FALSE
    /\ index_columns = "flat" /\ etf_columns = "flat"
    /\ volatility = NaN

\* python soxl_backtest.py: run_backtest(index, long, short, use_shorts)
InitSoxl ==
    /\ policy = "dual" /\ bt_pc = "ready" /\ sig_pc = "idle"
    /\ \E n \in 0..SoxMaxLen :
          /\ index_data \in [1..n -> SoxIndexCloses]
          /\ etf_data \in [1..n -> SoxEtfCloses]
          /\ \/ /\ use_shorts = TRUE
                /\ \/ short_data = NoShort
                   \/ \E c \in [1..n -> SoxEtfCloses] :
                          short_data = [given |-> TRUE, close |-> c]
             \/ /\ use_shorts = FALSE
                /\ short_data \in {NoShort, [given |-> TRUE, close |-> Mirror(etf_data)]}
    /\ ma_period = MA_LONG
    /\ index_columns = "flat" /\ etf_columns = "flat"
    /\ volatility = NaN

\* soxl_backtest.run_comparison: the long-only scenario, and the long-short
\* scenario with a short ETF that moves against the long one
InitSoxlComparison ==
    /\ policy = "dual" /\ bt_pc = "ready" /\ sig_pc = "idle"
    /\ \E n \in 0..SoxMaxLen :
          /\ index_data \in [1..n -> SoxSignalCloses]
          /\ etf_data \in [1..n -> SoxEtfCloses]
    /\ \/ use_shorts = FALSE /\ short_data = NoShort
       \/ use_shorts = TRUE /\ short_data = [given |-> TRUE, close |-> Mirror(etf_data)]
    /\ ma_period = MA_LONG
    /\ index_columns = "flat" /\ etf_columns = "flat"
    /\ volatility = NaN

\* python soxl_strategy.py: get_signal(data)
InitSoxlSignal ==
    /\ policy = "dual" /\ bt_pc = "idle" /\ sig_pc = "ready"
    /\ \E n \in 0..SoxMaxLen : index_data \in [1..n -> SoxSignalCloses]
    /\ etf_data = <<>>
    /\ short_data = NoShort /\ use_shorts = FALSE
    /\ ma_period = MA_LONG
    /\ index_columns = "flat" /\ etf_columns = "flat"
    /\ volatility \in Volatilities

InitBT ==
    /\ \/ InitBacktest \/ InitBacktestLabels \/ InitSignal
       \/ InitSoxl \/ InitSoxlComparison \/ InitSoxlSignal
    /\ signals = <<>> /\ data = <<>> /\ results = NoResult /\ sig = NoResult
    /\ sig_locals = NoResult
    /\ TradeIdle

\* backtest.run_backtest
RunBacktest ==
    /\ policy = "single" /\ bt_pc = "ready"
    /\ \E with_signal \in {BtSignals(index_data, etf_data, ma_period)} :
       \E frame \in {BtFrame(with_signal, InitialCapital)} :
       \E res \in {BtCalculateMetrics(frame, InitialCapital)} :
           /\ signals' = with_signal
           /\ results' = res
           /\ data' = IF res.status = "ok" THEN frame ELSE <<>>
           /\ bt_pc' = IF res.status = "ok" THEN "done" ELSE "raised"
    /\ index_columns' = FlattenColumns(index_columns)
    /\ etf_columns' = FlattenColumns(etf_columns)
    /\ UNCHANGED <<policy, index_data, etf_data, short_data, use_shorts, ma_period,
                   sig_pc, sig, volatility, sig_locals, trvars>>

\* soxl_backtest.run_backtest
SxRunBacktest ==
    /\ policy = "dual" /\ bt_pc = "ready"
    /\ \E with_position \in {SxSignals(index_data, etf_data, short_data, use_shorts)} :
       \E frame \in {SxFrame(with_position, use_shorts, InitialCapital)} :
       \E res \in {SxCalculateMetrics(frame, InitialCapital, use_shorts)} :
           /\ signals' = with_position
           /\ results' = res
           /\ data' = IF res.status = "ok" THEN frame ELSE <<>>
           /\ bt_pc' = IF res.status = "ok" THEN "done" ELSE "raised"
    /\ UNCHANGED <<policy, index_data, etf_data, short_data, use_shorts, ma_period,
                   sig_pc, sig, volatility, sig_locals, index_columns, etf_columns,
                   trvars>>

\* strategy.get_signal
RunGetSignal ==
    /\ policy = "single" /\ sig_pc = "ready"
    /\ sig' = GetSignal(index_data, ma_period)
    /\ sig_pc' = IF sig'.status = "raised" THEN "raised" ELSE "done"
    /\ UNCHANGED <<policy, index_data, etf_data, short_data, use_shorts, ma_period,
                   bt_pc, signals, data, results, volatility, sig_locals,
                   index_columns, etf_columns, trvars>>

\* soxl_strategy.get_signal
SxRunGetSignal ==
    /\ policy = "dual" /\ sig_pc = "ready"
    /\ \E out \in {SxGetSignal(index_data, volatility)} :
           /\ sig' = out.dict
           /\ sig_locals' = out.locals
    /\ sig_pc' = "done"
    /\ UNCHANGED <<policy, index_data, etf_data, short_data, use_shorts, ma_period,
                   bt_pc, signals, data, results, volatility,
                   index_columns, etf_columns, trvars>>

NextBT == RunBacktest \/ SxRunBacktest \/ RunGetSignal \/ SxRunGetSignal

SpecBT == InitBT /\ [][NextBT]_vars

(***************************************************************************)
(* trade.py                                                                *)
(*                                                                         *)
(* run_strategy's reconciliation takes the signal dict as get_signal       *)
(* returns it, config.USE_SHORTS, the account's portfolio value, the last  *)
(* close of the target instrument and the venue's holdings.  Money is in   *)
(* whole units.  The venue holds no short position in the two ETFs (the    *)
(* strategy only sells what it holds), and an order the venue accepts is   *)
(* filled at once.                                                         *)
(***************************************************************************)
TICKER_LONG == "TQQQ"
TICKER_SHORT == "SQQQ"

\* mutant of CalculateTargetPosition: the quotient is rounded up
CalculateTargetPositionUp(sig_, value, current_price) ==
    -((-(value * sig_.allocation.n)) \div (sig_.allocation.d * current_price))

\* lines 108-112: int(portfolio_value * allocation / current_price)
CalculateTargetPosition(sig_, value, current_price) ==
    (value * sig_.allocation.n) \div (sig_.allocation.d * current_price)

\* lines 159-162
TargetTicker(sig_, shorts) ==
    IF sig_.signal = "SHORT" /\ shorts THEN TICKER_SHORT
    ELSE IF sig_.signal = "LONG" THEN TICKER_LONG
    ELSE "None"

\* mutant of SharesToTrade: the current holding is not subtracted
SharesToTradeGross(target, current) == target

\* lines 176, 204
SharesToTrade(target, current) == target - current

\* mutant of LongClosesShort: the short holding is never closed
LongKeepsShort(held_sqqq) == held_sqqq < 0

\* line 181
LongClosesShort(held_sqqq) == held_sqqq > 0

\* mutant of ShortClosesLong: the long holding is never closed
ShortKeepsLong(held_tqqq) == held_tqqq < 0

\* line 209
ShortClosesLong(held_tqqq) == held_tqqq > 0

\* line 223
CashSellsLong(held_tqqq) == held_tqqq > 0

\* mutant of CashSellsShort: the short holding is never sold
CashKeepsShort(held_sqqq) == held_sqqq < 0

\* line 228
CashSellsShort(held_sqqq) == held_sqqq > 0

Order(symbol, qty, side) == [symbol |-> symbol, qty |-> qty, side |-> side]

\* the venue fills an accepted market order
Fill(pos, o) ==
    [pos EXCEPT ![o.symbol] = IF o.side = "buy" THEN @ + o.qty ELSE @ - o.qty]

\* mutant of AfterVenueError: run_strategy goes on after a failed submission
GoOnAfterVenueError(next_pc) == next_pc

\* line 96: nothing catches an exception of submit_order, in execute_trade
\* or in run_strategy
AfterVenueError(next_pc) == "raised"

\* mutant of ReachesVenue: a dry run submits its orders as well
ReachesVenueAlways(dry) == TRUE

\* lines 79-96: execute_trade returns the DRY_RUN record before it builds the
\* order request; only a run that is not dry gets to client.submit_order
ReachesVenue(dry) == ~dry

\* lines 71-105: execute_trade, then run_strategy goes on at next_pc
ExecuteTrade(symbol, qty, side, next_pc) ==
    /\ orders' = Append(orders, Order(symbol, qty, side))
    /\ IF ~ReachesVenue(dry_run)
       THEN /\ tpc' = next_pc
            /\ UNCHANGED <<submitted, venue, positions, exc>>
       ELSE /\ submitted' = Append(submitted, Order(symbol, qty, side))
            /\ venue' = Append(venue, "submit_order")
            /\ \/ /\ positions' = Fill(positions, Order(symbol, qty, side))
                  /\ tpc' = next_pc
                  /\ UNCHANGED exc
               \/ /\ tpc' = AfterVenueError(next_pc)
                  /\ exc' = "APIError"
                  /\ UNCHANGED positions

NoTrade(next_pc) ==
    /\ tpc' = next_pc
    /\ UNCHANGED <<orders, submitted, venue, positions, exc>>

Signals ==
    {[status |-> "ok", signal |-> "LONG", position |-> TICKER_LONG, allocation |-> a] :
        a \in {One, R(1, 2)}}
    \cup {[status |-> "ok", signal |-> "SHORT", position |-> TICKER_SHORT, allocation |-> a] :
        a \in {One, R(1, 2)}}
    \cup {[status |-> "ok", signal |-> "CASH", position |-> "CASH", allocation |-> Zero],
          [status |-> "error", error |-> "need_more_data"]}

\* python trade.py (tpc = "start"), or the sizing example of python
\* strategy.py (tpc = "size"), which touches no venue
InitTrade ==
    /\ run = 1
    /\ signal \in Signals
    /\ portfolio_value \in 0..MaxValue
    /\ price \in 0..MaxPrice
    /\ \/ /\ tpc = "start"
          /\ USE_SHORTS \in BOOLEAN /\ dry_run \in BOOLEAN
          /\ positions \in [{TICKER_LONG, TICKER_SHORT} -> 0..MaxQty]
       \/ /\ tpc = "size"
          /\ USE_SHORTS = FALSE /\ dry_run = FALSE
          /\ positions = [s \in {TICKER_LONG, TICKER_SHORT} |-> 0]
    /\ current_tqqq = 0 /\ current_sqqq = 0 /\ target_ticker = "None"
    /\ target_shares = 0 /\ orders = <<>> /\ submitted = <<>> /\ prev_orders = <<>>
    /\ venue = <<>>
    /\ exc = "None" /\ sized = NoResult
    /\ policy = "none" /\ index_data = <<>> /\ etf_data = <<>> /\ short_data = NoShort
    /\ use_shorts = FALSE /\ ma_period = 0 /\ bt_pc = "idle"
    /\ signals = <<>> /\ data = <<>>
    /\ results = NoResult /\ sig_pc = "idle" /\ sig = NoResult
    /\ volatility = NaN /\ sig_locals = NoResult
    /\ index_columns = "flat" /\ etf_columns = "flat"

config == <<run, USE_SHORTS, dry_run, signal, portfolio_value, price, prev_orders, sized>>
locals == <<current_tqqq, current_sqqq, target_ticker, target_shares>>

\* mutant of AfterSignal: the run goes on with an error outcome
AfterSignalGoOn(sig_) == "account"

\* lines 127-129: if signal.get('error'): print, return
AfterSignal(sig_) == IF sig_.status = "error" THEN "done" ELSE "account"

\* lines 122-129
TrGetSignal ==
    /\ tpc = "start"
    /\ tpc' = AfterSignal(signal)
    /\ UNCHANGED <<config, locals, positions, orders, submitted, venue, exc, btvars>>

\* lines 135-166: get_alpaca_client (line 138), get_account_info (line 144),
\* get_current_positions (line 150), with the venue's credentials in place
TrReadAccount ==
    /\ tpc = "account"
    /\ venue' = venue \o <<"get_alpaca_client", "get_account", "get_all_positions">>
    /\ target_ticker' = TargetTicker(signal, USE_SHORTS)
    /\ current_tqqq' = positions[TICKER_LONG]
    /\ current_sqqq' = positions[TICKER_SHORT]
    /\ tpc' = IF target_ticker' = TICKER_LONG THEN "long_target"
              ELSE IF target_ticker' = TICKER_SHORT THEN "short_target"
              ELSE "cash_long"
    /\ UNCHANGED <<config, target_shares, positions, orders, submitted, exc, btvars>>

\* lines 171-178; .iloc[-1] of an empty price frame raises IndexError
TrLongTarget ==
    /\ tpc = "long_target"
    /\ IF price = 0
       THEN tpc' = "raised" /\ exc' = "IndexError" /\ UNCHANGED target_shares
       ELSE /\ target_shares' = CalculateTargetPosition(signal, portfolio_value, price)
            /\ tpc' = "long_close" /\ UNCHANGED exc
    /\ UNCHANGED <<config, current_tqqq, current_sqqq, target_ticker, positions,
                   orders, submitted, venue, btvars>>

\* lines 180-184
TrLongCloseShort ==
    /\ tpc = "long_close"
    /\ IF LongClosesShort(current_sqqq)
       THEN ExecuteTrade(TICKER_SHORT, current_sqqq, "sell", "long_trade")
       ELSE NoTrade("long_trade")
    /\ UNCHANGED <<config, locals, btvars>>

\* lines 186-196
TrLongTrade ==
    /\ tpc = "long_trade"
    /\ IF SharesToTrade(target_shares, current_tqqq) > 0
       THEN ExecuteTrade(TICKER_LONG, SharesToTrade(target_shares, current_tqqq), "buy", "done")
       ELSE IF SharesToTrade(target_shares, current_tqqq) < 0
       THEN ExecuteTrade(TICKER_LONG, Abs(SharesToTrade(target_shares, current_tqqq)),
                         "sell", "done")
       ELSE NoTrade("done")
    /\ UNCHANGED <<config, locals, btvars>>

\* lines 199-206
TrShortTarget ==
    /\ tpc = "short_target"
    /\ IF price = 0
       THEN tpc' = "raised" /\ exc' = "IndexError" /\ UNCHANGED target_shares
       ELSE /\ target_shares' = CalculateTargetPosition(signal, portfolio_value, price)
            /\ tpc' = "short_close" /\ UNCHANGED exc
    /\ UNCHANGED <<config, current_tqqq, current_sqqq, target_ticker, positions,
                   orders, submitted, venue, btvars>>

\* lines 208-212
TrShortCloseLong ==
    /\ tpc = "short_close"
    /\ IF ShortClosesLong(current_tqqq)
       THEN ExecuteTrade(TICKER_LONG, current_tqqq, "sell", "short_trade")
       ELSE NoTrade("short_trade")
    /\ UNCHANGED <<config, locals, btvars>>

\* lines 214-217: a buy only
TrShortTrade ==
    /\ tpc = "short_trade"
    /\ IF SharesToTrade(target_shares, current_sqqq) > 0
       THEN ExecuteTrade(TICKER_SHORT, SharesToTrade(target_shares, current_sqqq), "buy", "done")
       ELSE NoTrade("done")
    /\ UNCHANGED <<config, locals, btvars>>

\* lines 219-226
TrCashSellLong ==
    /\ tpc = "cash_long"
    /\ IF CashSellsLong(current_tqqq)
       THEN ExecuteTrade(TICKER_LONG, current_tqqq, "sell", "cash_short")
       ELSE NoTrade("cash_short")
    /\ UNCHANGED <<config, locals, btvars>>

\* lines 228-234
TrCashSellShort ==
    /\ tpc = "cash_short"
    /\ IF CashSellsShort(current_sqqq)
       THEN ExecuteTrade(TICKER_SHORT, current_sqqq, "sell", "done")
       ELSE NoTrade("done")
    /\ UNCHANGED <<config, locals, btvars>>

\* strategy.get_position_size(signal, portfolio_value)
TrGetPositionSize ==
    /\ tpc = "size"
    /\ sized' = GetPositionSize(signal, portfolio_value, price)
    /\ tpc' = "sized"
    /\ UNCHANGED <<run, USE_SHORTS, dry_run, signal, portfolio_value, price, prev_orders,
                   locals, positions, orders, submitted, venue, exc, btvars>>

\* python trade.py once more, with the same signal, account value and price
TrRunAgain ==
    /\ tpc = "done" /\ run < MaxRuns
    /\ run' = run + 1
    /\ tpc' = "start"
    /\ prev_orders' = orders
    /\ orders' = <<>> /\ submitted' = <<>> /\ venue' = <<>>
    /\ current_tqqq' = 0 /\ current_sqqq' = 0 /\ target_ticker' = "None"
    /\ target_shares' = 0
    /\ UNCHANGED <<USE_SHORTS, dry_run, signal, portfolio_value, price, positions,
                   exc, sized, btvars>>

NextTrade ==
    \/ TrGetSignal \/ TrReadAccount
    \/ TrLongTarget \/ TrLongCloseShort \/ TrLongTrade
    \/ TrShortTarget \/ TrShortCloseLong \/ TrShortTrade
    \/ TrCashSellLong \/ TrCashSellShort
    \/ TrRunAgain
    \/ TrGetPositionSize

SpecTrade == InitTrade /\ [][NextTrade]_vars

(***************************************************************************)
(* Properties of run_strategy                                              *)
(***************************************************************************)
\* C2: close before open.  Whenever the target is the long instrument and
\* the short one is held at the start of the run (or the target is the short
\* instrument and the long one is held), the first order the run emits is a
\* SELL of the whole opposing holding, no order for the target instrument
\* comes before it, and a run that completes has emitted it.
C2_CloseBeforeOpen ==
    LET opposing == IF target_ticker = TICKER_LONG THEN TICKER_SHORT ELSE TICKER_LONG
        held == IF target_ticker = TICKER_LONG THEN current_sqqq ELSE current_tqqq
    IN  (target_ticker \in {TICKER_LONG, TICKER_SHORT} /\ held > 0) =>
            /\ orders # <<>> => orders[1] = Order(opposing, held, "sell")
            /\ \A i \in 1..Len(orders) :
                  orders[i].symbol = target_ticker =>
                      i > 1 /\ orders[1] = Order(opposing, held, "sell")
            /\ tpc \in {"long_trade", "short_trade", "done"} => orders # <<>>

\* a completed LONG run that closed a short holding and then bought
C2_Witness ==
    /\ tpc = "done" /\ target_ticker = TICKER_LONG /\ current_sqqq > 0
    /\ Len(orders) = 2 /\ orders[2].symbol = TICKER_LONG /\ orders[2].side = "buy"

\* C3: exposure is never long and short at once.  No step of a run moves the
\* holdings from at most one instrument held to both held, and after a run
\* whose orders were executed at most one of the two instruments is held.
C3_NeverLongAndShort ==
    /\ [][(positions[TICKER_LONG] > 0 /\ positions[TICKER_SHORT] > 0)' =>
            (positions[TICKER_LONG] > 0 /\ positions[TICKER_SHORT] > 0)]_vars
    /\ []((tpc = "done" /\ signal.status = "ok" /\ ~dry_run) =>
            ~(positions[TICKER_LONG] > 0 /\ positions[TICKER_SHORT] > 0))

\* a completed SHORT run that sold the long holding and bought the short one
C3_Witness ==
    /\ tpc = "done" /\ ~dry_run /\ run = 1 /\ target_ticker = TICKER_SHORT
    /\ current_tqqq > 0 /\ current_sqqq = 0
    /\ positions[TICKER_LONG] = 0 /\ positions[TICKER_SHORT] > 0

\* C4: reconciliation is idempotent.  After a run whose orders were all
\* executed, a second run with the same signal, portfolio value and price
\* emits no order.
C4_Idempotent == (run >= 2 /\ ~dry_run) => orders = <<>>

\* a second run completed after a first run that traded twice
C4_Witness ==
    /\ run = 2 /\ ~dry_run /\ tpc = "done" /\ Len(prev_orders) = 2
    /\ target_ticker # "None"

\* C5: the delta rule, for a LONG and for a SHORT target alike: one BUY of
\* delta if delta > 0, one SELL of |delta| if delta < 0, no order for the
\* target instrument if delta = 0, and the holding equals the target quantity
\* after execution.
C5_DeltaRule ==
    (tpc = "done" /\ signal.status = "ok" /\ target_ticker \in {TICKER_LONG, TICKER_SHORT}) =>
        LET held == IF target_ticker = TICKER_LONG THEN current_tqqq ELSE current_sqqq
            delta == target_shares - held
            for_target == SelectSeq(orders, LAMBDA o : o.symbol = target_ticker)
        IN  /\ delta > 0 => for_target = <<Order(target_ticker, delta, "buy")>>
            /\ delta < 0 => for_target = <<Order(target_ticker, -delta, "sell")>>
            /\ delta = 0 => for_target = <<>>
            /\ ~dry_run => positions[target_ticker] = target_shares

\* C6: a CASH target closes everything.  With a CASH signal, or a SHORT
\* signal while shorting is disabled, a completed run has emitted one SELL of
\* the full holding for each instrument held, no other order, and after
\* execution both holdings are zero.
C6_CashClosesAll ==
    (/\ tpc = "done" /\ signal.status = "ok"
     /\ signal.signal = "CASH" \/ (signal.signal = "SHORT" /\ ~USE_SHORTS)) =>
        /\ \A i \in 1..Len(orders) : orders[i].side = "sell"
        /\ SelectSeq(orders, LAMBDA o : o.symbol = TICKER_LONG)
             = IF current_tqqq > 0 THEN <<Order(TICKER_LONG, current_tqqq, "sell")>> ELSE <<>>
        /\ SelectSeq(orders, LAMBDA o : o.symbol = TICKER_SHORT)
             = IF current_sqqq > 0 THEN <<Order(TICKER_SHORT, current_sqqq, "sell")>> ELSE <<>>
        /\ ~dry_run => positions = [s \in {TICKER_LONG, TICKER_SHORT} |-> 0]

\* a SHORT signal with shorting disabled, both instruments held and sold
C6_Witness ==
    /\ tpc = "done" /\ signal.status = "ok" /\ signal.signal = "SHORT" /\ ~USE_SHORTS
    /\ ~dry_run /\ current_tqqq > 0 /\ current_sqqq > 0 /\ Len(orders) = 2

(***************************************************************************)
(* Properties of the backtests and of get_signal                           *)
(***************************************************************************)
RECURSIVE SumOf(_, _, _)
\* closes[a] + ... + closes[b]
SumOf(closes, a, b) == IF a > b THEN 0 ELSE closes[a] + SumOf(closes, a + 1, b)

\* C1: no look-ahead, in both backtests.  The strategy return of every
\* simulated period t is the return over t of the instrument selected by the
\* position of period t-1: the long ETF's if LONG, the short ETF's if SHORT
\* (0 if no short series is used), 0 if CASH.  So the period at which the
\* position flips from CASH to LONG still returns 0.
C1_NoLookAhead ==
    bt_pc = "done" =>
        \A k \in 1..Len(data) :
            \E j \in 2..Len(signals) :
                /\ signals[j].date = data[k].date
                /\ signals[j - 1].date = data[k].date - 1
                /\ LET t == data[k].date
                       prev == IF policy = "single" THEN signals[j - 1].signal
                               ELSE signals[j - 1].position
                       now == IF policy = "single" THEN signals[j].signal
                              ELSE signals[j].position
                       ret == data[k].strategy_return
                   IN  /\ ret.d > 0
                       /\ prev = 1 =>
                             ret.n * etf_data[t - 1] = (etf_data[t] - etf_data[t - 1]) * ret.d
                       /\ (prev = -1 /\ use_shorts /\ short_data.given) =>
                             ret.n * short_data.close[t - 1]
                                 = (short_data.close[t] - short_data.close[t - 1]) * ret.d
                       /\ (prev = -1 /\ ~(use_shorts /\ short_data.given)) => ret.n = 0
                       /\ prev = 0 => ret.n = 0
                       /\ (prev = 0 /\ now = 1) => ret.n = 0

\* the position flips from CASH to LONG at a period whose ETF return is not
\* 0: the strategy return is 0 there and not 0 one period later
C1_Witness ==
    /\ bt_pc = "done" /\ policy = "single"
    /\ \E k \in 1..(Len(data) - 1) :
          /\ signals[k].signal = 0 /\ signals[k + 1].signal = 1
          /\ data[k].date = signals[k + 1].date
          /\ data[k].etf_return.n # 0 /\ data[k].strategy_return.n = 0
          /\ data[k + 1].strategy_return.n # 0

\* C7: trade_count is the number of simulated periods whose position
\* differs from the position of the period before.
C7_TradeCount ==
    bt_pc = "done" =>
        results.total_trades =
            Cardinality({j \in 2..Len(signals) :
                IF policy = "single" THEN signals[j].signal # signals[j - 1].signal
                ELSE signals[j].position # signals[j - 1].position})

\* C8: max_drawdown, of the strategy and of buy-and-hold, is at most 0 and
\* at least -100 percent in every backtest result.
C8_MaxDrawdownRange ==
    bt_pc = "done" =>
        /\ results.max_drawdown <= 0 /\ results.max_drawdown >= -10000
        /\ results.bh_max_drawdown <= 0 /\ results.bh_max_drawdown >= -10000

\* a result in which both curves did fall from a peak
C8_Witness ==
    /\ bt_pc = "done" /\ Len(data) >= 2
    /\ results.max_drawdown < 0 /\ results.bh_max_drawdown < 0

\* C9: when the index close is above its moving average at every row where
\* the average is defined, the single-MA backtest is LONG at every simulated
\* row, its return equals the buy-and-hold return at every simulated row, and
\* the equity curves and final values are identical.
C9_AllAboveTracksBuyHold ==
    (/\ policy = "single" /\ bt_pc = "done"
     /\ \A j \in 1..Len(signals) : RGt(signals[j].index_close, signals[j].sma)) =>
        /\ \A k \in 1..Len(data) :
              /\ data[k].signal = 1
              /\ data[k].strategy_return = data[k].buy_hold_return
              /\ data[k].strategy_cumulative = data[k].buy_hold_cumulative
              /\ data[k].strategy_value = data[k].buy_hold_value
        /\ results.final_value = results.bh_final_value
        /\ results.total_return = results.bh_total_return

\* two simulated rows above the average, the ETF moving in both
C9_Witness ==
    /\ policy = "single" /\ bt_pc = "done" /\ Len(data) = 2
    /\ \A j \in 1..Len(signals) : RGt(signals[j].index_close, signals[j].sma)
    /\ data[1].buy_hold_return.n # 0 /\ data[2].buy_hold_return.n # 0

\* C10: the single-MA policy.  get_signal returns LONG with allocation 1.0
\* exactly when the latest close is above its moving average and CASH with
\* allocation 0.0 otherwise, a close equal to the average included; it never
\* returns SHORT.  The backtest's signal column is 1 exactly at the rows whose
\* close is above the average.
C10_SingleMaPolicy ==
    /\ (policy = "single" /\ sig_pc = "done" /\ sig.status = "ok") =>
          LET n == Len(index_data)
              above == ma_period * index_data[n]
                           > SumOf(index_data, n - ma_period + 1, n)
          IN  /\ sig.signal = IF above THEN "LONG" ELSE "CASH"
              /\ sig.allocation = IF above THEN One ELSE Zero
              /\ sig.signal # "SHORT"
    /\ (policy = "single" /\ bt_pc \in {"done", "raised"}) =>
          \A j \in 1..Len(signals) :
              signals[j].signal =
                  IF ma_period * index_data[signals[j].date]
                         > SumOf(index_data, signals[j].date - ma_period + 1, signals[j].date)
                  THEN 1 ELSE 0

\* get_signal on a frame whose latest close equals its moving average
C10_Witness ==
    /\ policy = "single" /\ sig_pc = "done" /\ sig.status = "ok" /\ sig.signal = "CASH"
    /\ ma_period * index_data[Len(index_data)]
           = SumOf(index_data, Len(index_data) - ma_period + 1, Len(index_data))

(***************************************************************************)
(* Properties of the two get_signal functions                              *)
(***************************************************************************)
\* the conditions of a row t of the closes, in whole numbers
AboveWindow(closes, t, w) == w * closes[t] > SumOf(closes, t - w + 1, t)
BelowWindow(closes, t, w) == w * closes[t] < SumOf(closes, t - w + 1, t)
StrongUp(closes, t) ==
    (closes[t] - closes[t - ROC_PERIOD]) * ROC_THRESHOLD.d
        > ROC_THRESHOLD.n * closes[t - ROC_PERIOD]
StrongDown(closes, t) ==
    (closes[t] - closes[t - ROC_PERIOD]) * ROC_THRESHOLD.d
        < (-ROC_THRESHOLD.n) * closes[t - ROC_PERIOD]

\* C11: when the latest and the previous row both have a moving average,
\* crossed_up is true exactly when the latest row is above the average and
\* the previous row is not, and crossed_down exactly when the latest row is
\* not above and the previous row is, a close equal to its average included;
\* the signal and the allocation depend on the latest row only.
C11_CrossoverFlags ==
    (sig_pc = "done" /\ sig.status = "ok" /\ Len(index_data) > ma_period) =>
        LET n == Len(index_data)
            above == AboveWindow(index_data, n, ma_period)
            prev_above == AboveWindow(index_data, n - 1, ma_period)
        IN  IF policy = "single"
            THEN /\ sig.crossed_up = (above /\ ~prev_above)
                 /\ sig.crossed_down = (~above /\ prev_above)
                 /\ sig.signal = IF above THEN "LONG" ELSE "CASH"
                 /\ sig.allocation = IF above THEN One ELSE Zero
            ELSE /\ sig.crossed_up_200 = (above /\ ~prev_above)
                 /\ sig.crossed_down_200 = (~above /\ prev_above)

\* C12: the dual-MA + momentum policy, in the backtest's position column and
\* in the live signal.  LONG exactly when the close is above both averages
\* and the rate of change is above the threshold; SHORT exactly when shorting
\* is enabled, the close is below both averages and the rate of change is
\* below the negative threshold; CASH otherwise.  The live get_signal has no
\* shorting switch: run_strategy's target is none for a SHORT signal while
\* shorting is disabled.
C12_DualPolicy ==
    /\ (policy = "dual" /\ bt_pc \in {"done", "raised"}) =>
          \A j \in 1..Len(signals) :
              LET t == signals[j].date
                  long == /\ AboveWindow(index_data, t, MA_LONG)
                          /\ AboveWindow(index_data, t, MA_SHORT)
                          /\ StrongUp(index_data, t)
                  short == /\ use_shorts
                           /\ BelowWindow(index_data, t, MA_LONG)
                           /\ BelowWindow(index_data, t, MA_SHORT)
                           /\ StrongDown(index_data, t)
              IN  signals[j].position = IF long THEN 1 ELSE IF short THEN -1 ELSE 0
    /\ (policy = "dual" /\ sig_pc = "done" /\ sig.status = "ok") =>
          LET t == Len(index_data)
              long == /\ AboveWindow(index_data, t, MA_LONG)
                      /\ AboveWindow(index_data, t, MA_SHORT)
                      /\ StrongUp(index_data, t)
              short == /\ BelowWindow(index_data, t, MA_LONG)
                       /\ BelowWindow(index_data, t, MA_SHORT)
                       /\ StrongDown(index_data, t)
          IN  sig.signal = IF long THEN "LONG" ELSE IF short THEN "SHORT" ELSE "CASH"
    /\ TargetTicker([signal |-> "SHORT"], FALSE) = "None"

\* C13: the dual policy's allocation.  For a LONG or a SHORT signal the
\* allocation is min(1, 1/2 + 2 |trend_strength|) times the volatility
\* multiplier: 1 for a volatility of at most 0.35, 3/4 for one in
\* (0.35, 0.50], 1/2 above 0.50.  It lies in [1/4, 1]; a CASH signal has
\* allocation 0.  The dict reports the allocation rounded to two decimals.
C13_Allocation ==
    (policy = "dual" /\ sig_pc = "done" /\ sig.status = "ok") =>
        LET n == Len(index_data)
            s == SumOf(index_data, n - MA_LONG + 1, n)
            dist == Abs(MA_LONG * index_data[n] - s)
            \* min(1, 1/2 + 2 dist / s) = tnum / tden
            tnum == IF 4 * dist >= s THEN 1 ELSE s + 4 * dist
            tden == IF 4 * dist >= s THEN 1 ELSE 2 * s
            \* the multiplier is mnum / 4
            mnum == IF 20 * volatility.n <= 7 * volatility.d THEN 4
                    ELSE IF 2 * volatility.n <= volatility.d THEN 3
                    ELSE 2
            a == sig_locals.allocation
        IN  IF sig.signal = "CASH"
            THEN a = Zero /\ sig.allocation = 0
            ELSE /\ a.d > 0
                 /\ a.n * (tden * 4) = (tnum * mnum) * a.d
                 /\ 4 * a.n >= a.d /\ a.n <= a.d
                 /\ sig.allocation >= 25 /\ sig.allocation <= 100
                 /\ 2 * Abs(100 * a.n - sig.allocation * a.d) <= a.d

\* a LONG signal in the middle volatility band, the trend multiplier below 1
C13_Witness ==
    /\ policy = "dual" /\ sig_pc = "done" /\ sig.status = "ok" /\ sig.signal = "LONG"
    /\ volatility = R(2, 5)
    /\ sig_locals.allocation = R(9, 16) /\ sig.allocation = 56

\* C15: get_signal, of either policy, returns an insufficient-history error
\* and no signal whenever fewer than two rows have every indicator defined,
\* that is whenever the frame is not longer than the moving-average window.
C15_InsufficientHistory ==
    (sig_pc \in {"done", "raised"} /\ Len(index_data) <= ma_period) =>
        sig.status = "error"

\* C16: a frame shorter than the largest window, the empty frame included,
\* gives a data-insufficient error and nothing else: get_signal returns the
\* error and no signal, run_backtest reports the error and no result.
C16_DataInsufficient ==
    /\ (sig_pc \in {"done", "raised"} /\ Len(index_data) < ma_period) =>
          sig.status = "error"
    /\ (bt_pc \in {"done", "raised"} /\ Len(index_data) < ma_period) =>
          results.status = "error"

\* C17: when at least one row has its indicators but the lag leaves no
\* simulated period, run_backtest reports an empty-range error and no
\* metrics, and divides by no zero period count.
C17_EmptyRange ==
    (bt_pc \in {"done", "raised"} /\ Len(signals) >= 1 /\ Len(signals) - 1 = 0) =>
        /\ results.status = "error"
        /\ results.error = "empty_range"

\* C20: no component changes the frames it is given: whatever get_signal or
\* run_backtest does, the closes and the column labels of the caller's
\* frames stay as they were.
C20_InputsUnchanged ==
    [][/\ index_data' = index_data /\ etf_data' = etf_data /\ short_data' = short_data
       /\ index_columns' = index_columns /\ etf_columns' = etf_columns]_vars

(***************************************************************************)
(* Further properties of run_strategy                                      *)
(***************************************************************************)
\* C14: every order has a whole quantity of at least 1 and side buy or
\* sell; the target quantity is floor(portfolio_value * allocation / price),
\* is not negative, and its notional is at most portfolio_value * allocation.
C14_OrderQuantities ==
    /\ \A i \in 1..Len(orders) :
          /\ orders[i].qty \in Nat /\ orders[i].qty >= 1
          /\ orders[i].side \in {"buy", "sell"}
    /\ (/\ target_ticker \in {TICKER_LONG, TICKER_SHORT}
        /\ tpc \in {"long_close", "long_trade", "short_close", "short_trade", "done"}) =>
          /\ target_shares \in Nat
          /\ target_shares * price * signal.allocation.d
                 <= portfolio_value * signal.allocation.n
          /\ (target_shares + 1) * price * signal.allocation.d
                 > portfolio_value * signal.allocation.n

\* half of 3 at price 1: the target is 1 share, bought
C14_Witness ==
    /\ tpc = "done" /\ target_ticker = TICKER_LONG
    /\ portfolio_value = 3 /\ price = 1 /\ signal.allocation = R(1, 2)
    /\ target_shares = 1 /\ orders = <<Order(TICKER_LONG, 1, "buy")>>

\* C18: with a target instrument and an empty price series the run emits no
\* order and ends in a price-unavailable error of its own, and
\* get_position_size returns an error dict; with no target instrument the
\* price is never read, so that no run fails for want of a price.
C18_PriceUnavailable ==
    /\ (/\ target_ticker \in {TICKER_LONG, TICKER_SHORT} /\ price = 0
        /\ tpc \notin {"start", "account", "long_target", "short_target"}) =>
          /\ orders = <<>> /\ submitted = <<>>
          /\ exc = "PriceUnavailableError"
    /\ (tpc = "sized" /\ signal.status = "ok" /\ signal.position # "CASH" /\ price = 0) =>
          sized.status = "error"
    /\ (tpc = "sized" /\ signal.status = "ok" /\ signal.position = "CASH") =>
          sized.status = "ok" /\ sized.shares_to_hold = 0
    /\ (target_ticker = "None" /\ run = 1) => exc # "IndexError"

\* C19: venue failures are not retried.  In one run every order is handed to
\* the venue once, in the order execute_trade is called; when a submission
\* fails the run ends there with the venue's exception, and nothing is
\* submitted, emitted or filled afterwards.
C19_NoRetry ==
    /\ [](/\ \A i, j \in 1..Len(submitted) : i # j => submitted[i] # submitted[j]
          /\ ~dry_run => submitted = orders
          /\ exc = "APIError" => (tpc = "raised" /\ submitted # <<>>))
    /\ [][exc = "APIError" =>
            (submitted' = submitted /\ orders' = orders /\ positions' = positions)]_vars

\* the close of the short holding failed while a purchase of the long
\* instrument was due
C19_Witness ==
    /\ tpc = "raised" /\ exc = "APIError" /\ target_ticker = TICKER_LONG
    /\ submitted = <<Order(TICKER_SHORT, current_sqqq, "sell")>>
    /\ target_shares > current_tqqq
    /\ positions[TICKER_SHORT] = current_sqqq /\ positions[TICKER_LONG] = current_tqqq

\* the orders run_strategy emits, in order, when every call of execute_trade
\* returns: a function of the target, the holdings the run read and the
\* target quantity alone
RunOrders(ticker, held_tqqq, held_sqqq, target) ==
    IF ticker = TICKER_LONG
    THEN (IF held_sqqq > 0 THEN <<Order(TICKER_SHORT, held_sqqq, "sell")>> ELSE <<>>)
         \o (IF target > held_tqqq
             THEN <<Order(TICKER_LONG, target - held_tqqq, "buy")>>
             ELSE IF target < held_tqqq
             THEN <<Order(TICKER_LONG, held_tqqq - target, "sell")>>
             ELSE <<>>)
    ELSE IF ticker = TICKER_SHORT
    THEN (IF held_tqqq > 0 THEN <<Order(TICKER_LONG, held_tqqq, "sell")>> ELSE <<>>)
         \o (IF target > held_sqqq
             THEN <<Order(TICKER_SHORT, target - held_sqqq, "buy")>>
             ELSE <<>>)
    ELSE (IF held_tqqq > 0 THEN <<Order(TICKER_LONG, held_tqqq, "sell")>> ELSE <<>>)
         \o (IF held_sqqq > 0 THEN <<Order(TICKER_SHORT, held_sqqq, "sell")>> ELSE <<>>)

\* C21: a dry run never reaches the venue with an order.  With dry_run set,
\* whatever the signal and the holdings, nothing is handed to submit_order,
\* no venue error can end the run and the holdings stay as the run read
\* them; and a run that completes, dry or not, has emitted the same ordered
\* sequence of (symbol, quantity, side), the one its inputs determine, which
\* is what a run that is not dry has submitted.
C21_DryRunNeverSubmits ==
    /\ dry_run =>
          /\ submitted = <<>>
          /\ \A i \in 1..Len(venue) : venue[i] # "submit_order"
          /\ exc # "APIError"
          /\ venue # <<>> =>
                (positions[TICKER_LONG] = current_tqqq
                 /\ positions[TICKER_SHORT] = current_sqqq)
    /\ ~dry_run => submitted = orders
    /\ (tpc = "done" /\ signal.status = "ok") =>
          orders = RunOrders(TargetTicker(signal, USE_SHORTS), current_tqqq,
                             current_sqqq, target_shares)

\* a completed dry run that emitted the close of the short holding and a
\* purchase of the long instrument, and submitted neither
C21_Witness ==
    /\ dry_run /\ tpc = "done" /\ target_ticker = TICKER_LONG
    /\ Len(orders) = 2 /\ orders[1].side = "sell" /\ orders[2].side = "buy"
    /\ submitted = <<>> /\ positions[TICKER_SHORT] > 0

\* C22: a failed signal stops the run before any venue interaction.  When
\* get_signal returns an error outcome, run_strategy returns right after it:
\* no venue client is created, neither the account nor the holdings are
\* read, no order is emitted or submitted, the holdings are untouched, and
\* no exception leaves the function.
C22_FailedSignalStops ==
    /\ [](signal.status = "error" =>
            /\ tpc \in {"start", "done", "size", "sized"}
            /\ venue = <<>> /\ orders = <<>> /\ submitted = <<>>
            /\ current_tqqq = 0 /\ current_sqqq = 0 /\ target_ticker = "None"
            /\ exc = "None")
    /\ [][signal.status = "error" => positions' = positions]_vars

\* a run that returned on the error outcome while both instruments were held
C22_Witness ==
    /\ signal.status = "error" /\ tpc = "done" /\ run = 1
    /\ positions[TICKER_LONG] > 0 /\ positions[TICKER_SHORT] > 0
    /\ venue = <<>> /\ orders = <<>>

(***************************************************************************)
(* The dual-MA backtest against the dual-MA live signal                    *)
(***************************************************************************)
\* the position the backtest's encoding gives to a live signal
PositionOf(signal_) == IF signal_ = "LONG" THEN 1 ELSE IF signal_ = "SHORT" THEN -1 ELSE 0

\* C23: the dual-MA backtest and the dual-MA live signal classify every
\* indicator row identically.  With shorting enabled, each row of the
\* backtest's frame has position 1, -1 or 0 exactly when get_signal, given
\* the index closes up to that row, returns LONG, SHORT or CASH, a close
\* equal to one of its moving averages included.
C23_SameClassification ==
    (policy = "dual" /\ bt_pc \in {"done", "raised"} /\ use_shorts) =>
        \A j \in 1..Len(signals) : \A vol \in Volatilities :
            LET live == SxGetSignal(SubSeq(index_data, 1, signals[j].date), vol).dict
            IN  /\ live.status = "ok"
                /\ signals[j].position = PositionOf(live.signal)

====
